---------------------------- MODULE Spec2Model ----------------------------
(***************************************************************************)
(* A model of phi/physics/gridliquid.py (PhiFlow): the mask builders, the  *)
(* signed-distance extrapolation, the pressure solve entry point and the   *)
(* liquid step with its DomainCache.                                       *)
(*                                                                         *)
(* Arrays are functions from cell coordinates (tuples, 0-based, one entry  *)
(* per spatial axis) to values; the batch dimension has size one.  A       *)
(* distance is a pair <<a, b>> standing for the real number a + b*sqrt(2), *)
(* which is exact for the sums dx*sqrt(d.d) the code forms on grids of     *)
(* rank one and two with dx = 1.                                           *)
(***************************************************************************)
EXTENDS Integers, Sequences, FiniteSets, TLC

VARIABLES
    \* create_binary_mask
    bm_field, bm_threshold, binary_mask,
    \* extrapolate
    layout, grid_shape, input_field, particle_mask, distance,
    ext_field, s_distance, signs, surface_mask, sweeps, pc,
    \* GridLiquidPhysics.step
    state, result, domaincache, call, calls,
    \* solve_pressure
    sp_input, sp_outcome, solver_calls

vars_mask == <<bm_field, bm_threshold, binary_mask>>
vars_ext == <<layout, grid_shape, input_field, particle_mask, distance,
              ext_field, s_distance, signs, surface_mask, sweeps, pc>>
vars_step == <<state, result, domaincache, call, calls>>
vars_sp == <<sp_input, sp_outcome, solver_calls>>
vars == <<vars_mask, vars_ext, vars_step, vars_sp>>

None == "None"

----------------------------------------------------------------------------
(* Bounds                                                                  *)

\* largest absolute value of an entry of the field given to create_binary_mask
MaxFieldValue == 2
\* number of cells of that field
MaskCells == 3
\* largest value of extrapolate's distance argument
MaxDistance == 2
\* number of cells of the one-dimensional grids given to extrapolate
Len1D == 4
\* width of the two-dimensional grids given to extrapolate (two rows high)
Width2D == 3
\* number of calls of step in one behaviour
MaxSteps == 3
\* largest grid rank and last dimension tried on solve_pressure
MaxRank == 3
\* largest pressure value and iteration count the linear solver answers
MaxAnswer == 1

\* the grid cell width every caller passes (dx=1.0)
dx == 1

----------------------------------------------------------------------------
(* Arithmetic the backend provides                                         *)

Abs(x) == IF x < 0 THEN -x ELSE x

\* math.ceil of the rational num/den, den > 0
Ceil(num, den) == -((-num) \div den)

RECURSIVE MaxOf(_)
MaxOf(S) == IF S = {} THEN 0
            ELSE LET x == CHOOSE y \in S : TRUE
                     m == MaxOf(S \ {x})
                 IN IF x > m THEN x ELSE m

Maximum(a, b) == IF a > b THEN a ELSE b

\* numbers a + b*sqrt(2)
DAdd(x, y) == <<x[1] + y[1], x[2] + y[2]>>
DNeg(x) == <<-x[1], -x[2]>>
DScale(k, x) == <<k * x[1], k * x[2]>>
\* the sign of a + b*sqrt(2): compare a*a with 2*b*b when the signs differ.
\* The comparisons are exact; the code's floating point sums can differ from
\* them only where two candidates are equal as real numbers.
DSign(x) ==
    LET a == x[1]
        b == x[2]
    IN IF a = 0 /\ b = 0 THEN 0
       ELSE IF a >= 0 /\ b >= 0 THEN 1
       ELSE IF a <= 0 /\ b <= 0 THEN -1
       ELSE IF a > 0 THEN (IF a * a > 2 * b * b THEN 1 ELSE -1)
       ELSE (IF 2 * b * b > a * a THEN 1 ELSE -1)
DAbs(x) == IF DSign(x) < 0 THEN DNeg(x) ELSE x
DLess(x, y) == DSign(DAdd(y, DNeg(x))) > 0


----------------------------------------------------------------------------
(* create_binary_mask                                                      *)

\* a quotient a / b of the backend; den = 0 stands for the nan or inf that
\* a division by zero produces
TrueDivide(a, b) == [num |-> a, den |-> b]

\* math.ceil(q - tn/td) of a quotient q; not finite when q is not
CeilMinus(q, thr) ==
    IF q.den = 0 THEN [finite |-> FALSE, value |-> 0]
    ELSE [finite |-> TRUE,
          value |-> Ceil(q.num * thr[2] - thr[1] * q.den, q.den * thr[2])]

\* f_max = math.max(math.abs(field))
f_max_of(field) == MaxOf({Abs(field[c]) : c \in DOMAIN field})

\* the guard "if f_max != 0" without its test: always divides
scaled_field_unguarded(field, c) == TrueDivide(Abs(field[c]), f_max_of(field))

\* scaled_field = (math.abs(field) / f_max) if f_max != 0 else (0 * field)
scaled_field(field, c) ==
    IF f_max_of(field) # 0 THEN TrueDivide(Abs(field[c]), f_max_of(field))
    ELSE TrueDivide(0 * field[c], 1)

\* binary_mask = math.ceil(scaled_field - threshold); threshold = <<tn, td>>
create_binary_mask(field, thr) ==
    [c \in DOMAIN field |-> CeilMinus(scaled_field(field, c), thr)]

\* thresholds strictly between 0 and 1: the default 1e-5, the step's 0.5, others
Thresholds == {<<1, 100000>>, <<1, 4>>, <<1, 2>>, <<3, 4>>}

----------------------------------------------------------------------------
(* Grids                                                                   *)

Cells(shape) ==
    IF Len(shape) = 1 THEN {<<x>> : x \in 0..(shape[1] - 1)}
    ELSE {<<x, y>> : x \in 0..(shape[1] - 1), y \in 0..(shape[2] - 1)}

\* the index a symmetric pad of width one and the slice that follows read
Clamp(c, shape) ==
    [i \in 1..Len(shape) |->
        IF c[i] < 0 THEN 0
        ELSE IF c[i] > shape[i] - 1 THEN shape[i] - 1 ELSE c[i]]

Minus(c, d) == [i \in 1..Len(c) |-> c[i] - d[i]]
Unit(rank, k) == [i \in 1..rank |-> IF i = k THEN 1 ELSE 0]

\* staggered_shape: one more sample along every axis
staggered_shape(shape) == [i \in 1..Len(shape) |-> shape[i] + 1]

\* math.pad(particle_mask, [[0,1]] * rank, "constant")
pad_constant(mask, shape) ==
    [c \in Cells(staggered_shape(shape)) |->
        IF c \in Cells(shape) THEN mask[c] ELSE 0]

----------------------------------------------------------------------------
(* create_surface_mask                                                     *)

\* the contour taken on the empty side: max(upper, center) - center
bc_outer(mask, shape, c, k) ==
    LET rank == Len(shape)
        upper == mask[Clamp(Minus(c, Unit(rank, k)), shape)]
        center == mask[c]
        lower == mask[Clamp(Minus(c, [i \in 1..rank |-> -Unit(rank, k)[i]]), shape)]
    IN Maximum(Maximum(upper, center) - center, Maximum(center, lower) - center)

\* both bc_d of axis k at cell c: the padded mask read one cell up and down
bc_d(mask, shape, c, k) ==
    LET rank == Len(shape)
        upper == mask[Clamp(Minus(c, [i \in 1..rank |-> -Unit(rank, k)[i]]), shape)]
        center == mask[c]
        lower == mask[Clamp(Minus(c, Unit(rank, k)), shape)]
    IN Maximum(Maximum(upper, center) - upper, Maximum(center, lower) - lower)

create_surface_mask(mask, shape) ==
    [c \in Cells(shape) |->
        MaxOf({0} \cup {bc_d(mask, shape, c, k) : k \in 1..Len(shape)})]

----------------------------------------------------------------------------
(* extrapolate                                                             *)

\* the shape of the arrays extrapolate works on
array_shape(lay, shape) ==
    IF lay = "staggered" THEN staggered_shape(shape) ELSE shape

\* itertools.product(*np.tile((-1,0,1), (rank,1))), in its order
directions(rank) ==
    LET axis == <<-1, 0, 1>>
    IN IF rank = 1 THEN [i \in 1..3 |-> <<axis[i]>>]
       ELSE [i \in 1..9 |-> <<axis[((i - 1) \div 3) + 1], axis[((i - 1) % 3) + 1]>>]

dot(d) == IF Len(d) = 1 THEN d[1] * d[1] ELSE d[1] * d[1] + d[2] * d[2]

\* dx * np.sqrt(d.dot(d)) * sign, for d.d in {0, 1, 2}
step_length(d, sign) ==
    IF dot(d) = 1 THEN <<dx * sign, 0>>
    ELSE IF dot(d) = 2 THEN <<0, dx * sign>> ELSE <<0, 0>>

\* a magnitude of distance for the cells no sweep has reached yet
initial_magnitude_short(n) == n

\* 2.0 * (distance+1): "Larger than distance to be safe"
initial_magnitude(n) == 2 * (n + 1)

\* s_distance = -2.0 * (distance+1) * (2*particle_mask - 1)
initial_distance(mask, n) ==
    [c \in DOMAIN mask |-> <<-initial_magnitude(n) * (2 * mask[c] - 1), 0>>]

\* signs = -1 * (2*particle_mask - 1)
initial_signs(mask) == [c \in DOMAIN mask |-> -1 * (2 * mask[c] - 1)]

\* math.where((surface_mask >= 1), 0.0 * ones_like(s_distance), s_distance)
zero_at_surface(surface, dist) ==
    [c \in DOMAIN dist |-> IF surface[c] >= 1 THEN <<0, 0>> ELSE dist[c]]

\* the comparison without the test of the sign
updates_any_sign(d_dist, s_dist, sign) == DLess(DAbs(d_dist), DAbs(s_dist))

\* updates = (math.abs(d_dist) < math.abs(s_distance)) & (signs >= 0)
updates(d_dist, s_dist, sign) == DLess(DAbs(d_dist), DAbs(s_dist)) /\ sign >= 0

\* d_dist at cell c: the padded, sliced s_distance plus dx*|d|*signs
shifted_distance(dist, sgn, d, c, shape) ==
    DAdd(dist[Clamp(Minus(c, d), shape)], step_length(d, sgn[c]))

\* whether offset d updates cell c of the arrays a = [field, dist]
updated(d, a, sgn, c, shape) ==
    updates(shifted_distance(a.dist, sgn, d, c, shape), a.dist[c], sgn[c])

\* one offset d of a relaxation sweep, from the arrays a = [field, dist]:
\* both math.where of lines 329-330
relax_arrays(d, a, sgn, shape) ==
    [field |-> [c \in Cells(shape) |->
                   IF updated(d, a, sgn, c, shape)
                   THEN a.field[Clamp(Minus(c, d), shape)] ELSE a.field[c]],
     dist |-> [c \in Cells(shape) |->
                   IF updated(d, a, sgn, c, shape)
                   THEN shifted_distance(a.dist, sgn, d, c, shape) ELSE a.dist[c]]]

\* relax_arrays on the value of a (the arrays are evaluated once)
relax(d, a, sgn, shape) ==
    CHOOSE r \in {relax_arrays(d, v, sgn, shape) : v \in {a}} : TRUE

\* one offset d of the staggered pre-pass: only the pure positive axis
\* directions act, and component i is left alone where d[i] = 1
prepass_arrays(d, a, sgn, shape) ==
    IF \A i \in 1..Len(d) : d[i] <= 0 THEN a
    ELSE IF dot(d) = 1 /\ \A i \in 1..Len(d) : d[i] >= 0
    THEN [field |-> [c \in Cells(shape) |->
                       [i \in 1..Len(d) |->
                           IF d[i] # 1 /\ updated(d, a, sgn, c, shape)
                           THEN a.field[Clamp(Minus(c, d), shape)][i]
                           ELSE a.field[c][i]]],
          dist |-> [c \in Cells(shape) |->
                       IF updated(d, a, sgn, c, shape)
                       THEN shifted_distance(a.dist, sgn, d, c, shape)
                       ELSE a.dist[c]]]
    ELSE a

\* prepass_arrays on the value of a
prepass_offset(d, a, sgn, shape) ==
    CHOOSE r \in {prepass_arrays(d, v, sgn, shape) : v \in {a}} : TRUE

\* "for d in directions" of the pre-pass, from the i-th direction on
RECURSIVE prepass_from(_, _, _, _)
prepass_from(i, a, sgn, shape) ==
    IF i > Len(directions(Len(shape))) THEN a
    ELSE prepass_from(i + 1, prepass_offset(directions(Len(shape))[i], a, sgn, shape),
                      sgn, shape)

\* "for d in directions" of one sweep, from the i-th direction on; the
\* zero offset is skipped
RECURSIVE sweep_from(_, _, _, _)
sweep_from(i, a, sgn, shape) ==
    IF i > Len(directions(Len(shape))) THEN a
    ELSE LET d == directions(Len(shape))[i]
         IN sweep_from(i + 1,
                       IF dot(d) = 0 THEN a ELSE relax(d, a, sgn, shape),
                       sgn, shape)

\* s_distance[stagger_slice]: the padded row is dropped
trim(dist, shape) == [c \in Cells(shape) |-> dist[c]]

----------------------------------------------------------------------------
(* Values of the variables a specification does not use                    *)

IdleMask == bm_field = <<>> /\ bm_threshold = <<>> /\ binary_mask = <<>>
IdleExt ==
    /\ layout = None /\ grid_shape = <<>> /\ input_field = <<>>
    /\ particle_mask = <<>> /\ distance = 0 /\ ext_field = <<>>
    /\ s_distance = <<>> /\ signs = <<>> /\ surface_mask = <<>>
    /\ sweeps = 0 /\ pc = None
IdleStep ==
    state = <<>> /\ result = <<>> /\ domaincache = <<>> /\ call = <<>> /\ calls = 0
IdleSp == sp_input = <<>> /\ sp_outcome = <<>> /\ solver_calls = 0

----------------------------------------------------------------------------
(* Specification of create_binary_mask                                     *)

InitMask ==
    /\ bm_field \in [0..(MaskCells - 1) -> (-MaxFieldValue)..MaxFieldValue]
    /\ bm_threshold \in Thresholds
    /\ binary_mask = <<>>
    /\ IdleExt /\ IdleStep /\ IdleSp

CallCreateBinaryMask ==
    /\ binary_mask = <<>>
    /\ binary_mask' = create_binary_mask(bm_field, bm_threshold)
    /\ UNCHANGED <<bm_field, bm_threshold, vars_ext, vars_step, vars_sp>>

NextMask == CallCreateBinaryMask

SpecMask == InitMask /\ [][NextMask]_vars

----------------------------------------------------------------------------
(* Specification of extrapolate                                            *)

Shapes == {<<Len1D>>, <<Width2D, 2>>}

\* a field whose samples are pairwise different: 100*component + 10*x + y
label_field(shape) ==
    [c \in Cells(shape) |->
        [i \in 1..Len(shape) |->
            100 * i + 10 * c[1] + (IF Len(shape) = 1 THEN 0 ELSE c[2])]]

\* extrapolate moves samples and never computes with them, so a field of
\* pairwise different samples shows every move
FieldInputs(shape) == {label_field(shape)}

InitExt ==
    /\ layout \in {"centered", "staggered"}
    /\ grid_shape \in Shapes
    /\ particle_mask \in [Cells(grid_shape) -> {0, 1}]
    /\ distance \in 0..MaxDistance
    /\ input_field \in FieldInputs(array_shape(layout, grid_shape))
    /\ ext_field = <<>> /\ s_distance = <<>> /\ signs = <<>> /\ surface_mask = <<>>
    /\ sweeps = 0
    /\ pc = "call"
    /\ IdleMask /\ IdleStep /\ IdleSp

\* lines 265-283: the copy, the padded mask, the initial distance and signs
Setup ==
    /\ pc = "call"
    /\ LET mask == IF layout = "staggered"
                   THEN pad_constant(particle_mask, grid_shape)
                   ELSE particle_mask
           surface == create_surface_mask(mask, array_shape(layout, grid_shape))
       IN /\ particle_mask' = mask
          /\ ext_field' = input_field
          /\ signs' = initial_signs(mask)
          /\ surface_mask' = surface
          /\ s_distance' = zero_at_surface(surface, initial_distance(mask, distance))
    /\ pc' = "prepass"
    /\ UNCHANGED <<layout, grid_shape, input_field, distance, sweeps,
                   vars_mask, vars_step, vars_sp>>

\* lines 286-309: the pre-pass, for a staggered field only
PrePass ==
    /\ pc = "prepass"
    /\ LET a == IF layout = "staggered"
                THEN prepass_from(1, [field |-> ext_field, dist |-> s_distance],
                                  signs, array_shape(layout, grid_shape))
                ELSE [field |-> ext_field, dist |-> s_distance]
       IN ext_field' = a.field /\ s_distance' = a.dist
    /\ pc' = "sweep"
    /\ UNCHANGED <<layout, grid_shape, input_field, particle_mask, distance, signs,
                   surface_mask, sweeps, vars_mask, vars_step, vars_sp>>

\* lines 312-330: one iteration of "for _ in range(distance)"
Sweep ==
    /\ pc = "sweep"
    /\ sweeps < distance
    /\ LET a == sweep_from(1, [field |-> ext_field, dist |-> s_distance],
                           signs, array_shape(layout, grid_shape))
       IN ext_field' = a.field /\ s_distance' = a.dist
    /\ sweeps' = sweeps + 1
    /\ UNCHANGED <<layout, grid_shape, input_field, particle_mask, distance, signs,
                   surface_mask, pc, vars_mask, vars_step, vars_sp>>

\* lines 332-337: the staggered distance is trimmed, both arrays returned
Return ==
    /\ pc = "sweep"
    /\ sweeps = distance
    /\ s_distance' = IF layout = "staggered" THEN trim(s_distance, grid_shape)
                     ELSE s_distance
    /\ pc' = "done"
    /\ UNCHANGED <<layout, grid_shape, input_field, particle_mask, distance,
                   ext_field, signs, surface_mask, sweeps,
                   vars_mask, vars_step, vars_sp>>

NextExt == Setup \/ PrePass \/ Sweep \/ Return

SpecExtrapolate == InitExt /\ [][NextExt]_vars

----------------------------------------------------------------------------
(* Properties of create_binary_mask                                        *)

BinaryMaskCalled == binary_mask # <<>>

\* C1: for every field and every threshold strictly between 0 and 1 the
\* mask create_binary_mask returns has only the entries 0 and 1, each a
\* finite number (no division by a zero maximum took place), and the mask
\* of an all-zero field is all zero.
C1_BinaryMaskIsBinary ==
    BinaryMaskCalled =>
        /\ \A c \in DOMAIN binary_mask :
              binary_mask[c].finite /\ binary_mask[c].value \in {0, 1}
        /\ (\A c \in DOMAIN bm_field : bm_field[c] = 0)
              => \A c \in DOMAIN binary_mask : binary_mask[c].value = 0

\* the all-zero field has been thresholded with the step's 0.5
C1_Witness ==
    /\ BinaryMaskCalled
    /\ bm_threshold = <<1, 2>>
    /\ \A c \in DOMAIN bm_field : bm_field[c] = 0
    /\ \A c \in DOMAIN binary_mask : binary_mask[c].value = 0

----------------------------------------------------------------------------
(* Properties of create_surface_mask and extrapolate                       *)

ArrayCells == Cells(array_shape(layout, grid_shape))

\* the axis-neighbours of c inside the domain
Neighbours(c) ==
    {e \in ArrayCells :
        (IF Len(c) = 1 THEN Abs(c[1] - e[1])
         ELSE Abs(c[1] - e[1]) + Abs(c[2] - e[2])) = 1}

\* distance counting a diagonal neighbour as one cell
Chebyshev(c, e) ==
    IF Len(c) = 1 THEN Abs(c[1] - e[1])
    ELSE Maximum(Abs(c[1] - e[1]), Abs(c[2] - e[2]))

OccupiedAtEmpty(c) ==
    particle_mask[c] = 1 /\ \E e \in Neighbours(c) : particle_mask[e] = 0
EmptyAtOccupied(c) ==
    particle_mask[c] = 0 /\ \E e \in Neighbours(c) : particle_mask[e] = 1

SurfaceBuilt == pc \in {"prepass", "sweep", "done"}

\* C2 as stated: a cell of the surface mask is 1 exactly when it is an
\* occupied cell with an empty axis-neighbour or an empty cell with an
\* occupied axis-neighbour.
C2_SurfaceBothSides ==
    SurfaceBuilt =>
        \A c \in ArrayCells :
            surface_mask[c] = IF OccupiedAtEmpty(c) \/ EmptyAtOccupied(c) THEN 1 ELSE 0

\* C2 amended: a cell of the surface mask is 1 exactly when it is an
\* occupied cell with an empty axis-neighbour inside the domain; every other
\* cell, each empty cell included, is 0.
C2_SurfaceInnerContour ==
    SurfaceBuilt =>
        \A c \in ArrayCells :
            surface_mask[c] = IF OccupiedAtEmpty(c) THEN 1 ELSE 0

\* an empty cell beside an occupied one is left unmarked while the occupied
\* one is marked
C2_Witness ==
    /\ SurfaceBuilt
    /\ \E c \in ArrayCells :
          /\ EmptyAtOccupied(c) /\ surface_mask[c] = 0
          /\ \E e \in Neighbours(c) : OccupiedAtEmpty(e) /\ surface_mask[e] = 1

\* C3: after the staggered pre-pass, after every relaxation sweep and at the
\* return, every cell with occupancy 1 holds the field value it had in the
\* input.
C3_InteriorNeverOverwritten ==
    SurfaceBuilt =>
        \A c \in ArrayCells : particle_mask[c] = 1 => ext_field[c] = input_field[c]

\* a staggered run returned after at least one sweep that did write into an
\* empty cell next to kept fluid cells
C3_Witness ==
    /\ pc = "done" /\ layout = "staggered" /\ sweeps >= 1
    /\ \E c \in ArrayCells : particle_mask[c] = 1
    /\ \E c \in ArrayCells : particle_mask[c] = 0 /\ ext_field[c] # input_field[c]

\* on a one-dimensional grid: the samples that belong to the fluid.  In a
\* centered field these are the occupied cells; in a staggered field the
\* faces of the occupied cells, the lower face i and the upper face i+1
FluidSample(c) ==
    \/ particle_mask[c] = 1
    \/ layout = "staggered" /\ c[1] > 0 /\ particle_mask[<<c[1] - 1>>] = 1

FluidSamples == {f \in ArrayCells : FluidSample(f)}

NearestFluid(c) ==
    {f \in FluidSamples :
        \A g \in FluidSamples : Abs(c[1] - f[1]) <= Abs(c[1] - g[1])}

\* C6: on a one-dimensional grid, after extrapolate(field, mask, dx=1,
\* distance=n) returned, every empty sample within n cells of the fluid holds
\* the input value of a fluid sample nearest to it.
C6_NearestValue1D ==
    (pc = "done" /\ Len(grid_shape) = 1) =>
        \A c \in ArrayCells \ FluidSamples :
            (\E f \in FluidSamples : Abs(c[1] - f[1]) <= distance)
                => \E f \in NearestFluid(c) : ext_field[c] = input_field[f]

\* a one-dimensional run returned with an empty cell two cells from the
\* fluid holding a value that is not its own
C6_Witness ==
    /\ pc = "done" /\ Len(grid_shape) = 1 /\ distance >= 2
    /\ \E c \in ArrayCells \ FluidSamples :
          /\ \E f \in NearestFluid(c) :
                Abs(c[1] - f[1]) = 2 /\ ext_field[c] = input_field[f]
          /\ ext_field[c] # input_field[c]

\* one offset of a sweep that takes its shifted field and distance from the
\* arrays a0 of the start of the sweep and writes into the arrays acc
snapshot_arrays(d, a0, acc, sgn, shape) ==
    [field |-> [c \in Cells(shape) |->
                   IF updates(shifted_distance(a0.dist, sgn, d, c, shape),
                              acc.dist[c], sgn[c])
                   THEN a0.field[Clamp(Minus(c, d), shape)] ELSE acc.field[c]],
     dist |-> [c \in Cells(shape) |->
                   IF updates(shifted_distance(a0.dist, sgn, d, c, shape),
                              acc.dist[c], sgn[c])
                   THEN shifted_distance(a0.dist, sgn, d, c, shape) ELSE acc.dist[c]]]

snapshot_relax(d, a0, acc, sgn, shape) ==
    CHOOSE r \in {snapshot_arrays(d, a0, v, sgn, shape) : v \in {acc}} : TRUE

RECURSIVE snapshot_from(_, _, _, _, _)
snapshot_from(i, a0, acc, sgn, shape) ==
    IF i > Len(directions(Len(shape))) THEN acc
    ELSE LET d == directions(Len(shape))[i]
         IN snapshot_from(i + 1, a0,
                          IF dot(d) = 0 THEN acc
                          ELSE snapshot_relax(d, a0, acc, sgn, shape),
                          sgn, shape)

snapshot_sweep(field, dist, sgn, shape) ==
    CHOOSE r \in {snapshot_from(1, v, v, sgn, shape) :
                      v \in {[field |-> field, dist |-> dist]}} : TRUE

\* C8: the result of every relaxation sweep equals the result of computing
\* the candidates of all offsets from the field and the distance as they
\* were at the start of that sweep.
C8_SweepReadsSnapshot ==
    [][(pc = "sweep" /\ sweeps' = sweeps + 1) =>
          LET r == snapshot_sweep(ext_field, s_distance, signs,
                                  array_shape(layout, grid_shape))
          IN ext_field' = r.field /\ s_distance' = r.dist]_vars

\* C9: for a centered field, after extrapolate(field, mask, dx=1, distance=n)
\* returned, every empty cell more than n cells (diagonals counting one)
\* from every surface cell has its input value and the initial distance
\* 2*(n+1).
C9_NothingBeyondDistance ==
    (pc = "done" /\ layout = "centered") =>
        \A c \in ArrayCells :
            (/\ particle_mask[c] = 0
             /\ \A e \in ArrayCells :
                   surface_mask[e] = 1 => Chebyshev(c, e) > distance)
            => /\ ext_field[c] = input_field[c]
               /\ s_distance[c] = <<2 * (distance + 1), 0>>

----------------------------------------------------------------------------
(* solve_pressure                                                          *)

\* what pressure_solver.solve may answer: <<pressure, iterations>>
SolverAnswers == {<<p, it>> : p \in 0..MaxAnswer, it \in 0..MaxAnswer}
\* the answers tried inside a step: the least and the greatest
StepAnswers == {<<0, 0>>, <<MaxAnswer, MaxAnswer>>}

FieldKinds == {"State", "StaggeredGrid", "Centered"}

\* a chain of tests without the final else: every input is taken
accepts_any(input) == TRUE

\* the tests of lines 165-171: a State, a StaggeredGrid, or a field whose
\* last dimension is the rank of the domain
accepts(input) ==
    \/ input.kind = "State"
    \/ input.kind = "StaggeredGrid"
    \/ input.last_dim = input.rank

\* the divergence the accepted input is turned into
divergence_of(input) ==
    IF input.kind = "State" THEN "state.velocity.divergence"
    ELSE IF input.kind = "StaggeredGrid" THEN "staggered.divergence"
    ELSE "nd.divergence.central"

\* solve_pressure(input_field, domaincache, pressure_solver), the solver
\* answering `answer` if it is called
solve_pressure(input, answer) ==
    IF accepts(input)
    THEN [raised |-> FALSE, div |-> divergence_of(input),
          solver |-> IF input.pressure_solver = None THEN "SparseCG"
                     ELSE input.pressure_solver,
          solves |-> 1, answered |-> answer, returned |-> answer]
    ELSE [raised |-> TRUE, div |-> None, solver |-> None,
          solves |-> 0, answered |-> <<>>, returned |-> <<>>]

InitSp ==
    /\ sp_input \in [kind : FieldKinds, last_dim : 1..MaxRank, rank : 1..MaxRank,
                     pressure_solver : {None, "given"}]
    /\ sp_outcome = <<>>
    /\ solver_calls = 0
    /\ IdleMask /\ IdleExt /\ IdleStep

CallSolvePressure ==
    /\ sp_outcome = <<>>
    /\ \E answer \in SolverAnswers :
          /\ sp_outcome' = solve_pressure(sp_input, answer)
          /\ solver_calls' = solver_calls + solve_pressure(sp_input, answer).solves
    /\ UNCHANGED <<sp_input, vars_mask, vars_ext, vars_step>>

NextSp == CallSolvePressure

SpecPressure == InitSp /\ [][NextSp]_vars

\* the inputs the claim names: a state, a staggered velocity, a centered
\* field whose last dimension equals the grid rank
NamedInput ==
    \/ sp_input.kind \in {"State", "StaggeredGrid"}
    \/ sp_input.kind = "Centered" /\ sp_input.last_dim = sp_input.rank

----------------------------------------------------------------------------
(* GridLiquidPhysics.step                                                  *)

\* the cells of the one-dimensional grid the liquid lives on
StepCells == {0, 1}
\* the density values a cell starts with and advection may leave in it
DensityValues == {0, 1}
\* the velocity fields, opaque: their arithmetic is the staggered grid's
VelocityValues == {0, 1}

\* the obstacle tuples passed to step: each obstacle is its geometry, the
\* set of cells it covers
ObstacleInputs == {<<>>} \cup {<<{c}>> : c \in StepCells}
\* the inflow tuples passed to step
InflowInputs == {<<>>} \cup {<<[geometry |-> {c}, rate |-> 1]>> : c \in StepCells}

\* geometry_mask(geometries, grid): the indicator of the union
geometry_mask(obstacles) ==
    [c \in StepCells |->
        IF \E i \in 1..Len(obstacles) : c \in obstacles[i] THEN 1 ELSE 0]

\* DomainCache.is_valid(obstacles): the cached obstacle tuple still matches
is_valid(cache, obstacles) == cache.obstacles = obstacles

\* a test that finds every cache stale
needs_new_cache_always(st, cache, obstacles) == TRUE

\* state.domaincache is None or not state.domaincache.is_valid(obstacles)
needs_new_cache(st, cache, obstacles) ==
    st.domaincache = 0 \/ ~is_valid(cache, obstacles)

\* domain(state, obstacles): the cache the input state holds afterwards
domain(st, cache, obstacles) ==
    IF needs_new_cache(st, cache, obstacles)
    THEN LET mask == [c \in StepCells |-> 1 - geometry_mask(obstacles)[c]]
             active_mask == IF st.domaincache = 0 THEN mask
                            ELSE [c \in StepCells |-> mask[c] * cache.active[c]]
         IN [id |-> (IF st.domaincache = 0 THEN 0 ELSE cache.id) + 1,
             obstacles |-> obstacles, active |-> active_mask, accessible |-> mask]
    ELSE cache

RECURSIVE SumSeq(_, _)
SumSeq(f, i) == IF i = 0 THEN 0 ELSE f[i] + SumSeq(f, i - 1)

\* inflow(inflows, grid): zeros, or the sum of value_at(location) * rate
inflow(inflows) ==
    IF Len(inflows) = 0 THEN [c \in StepCells |-> 0]
    ELSE [c \in StepCells |->
             SumSeq([i \in 1..Len(inflows) |->
                        (IF c \in inflows[i].geometry THEN 1 ELSE 0) * inflows[i].rate],
                    Len(inflows))]

\* divergence_free called with state=None: nothing is recorded
divergence_free_unrecorded(st, answer) == st

\* what divergence_free(velocity, domaincache, solver, state=state) leaves
\* in the state it is given: lines 198-200
divergence_free_records(st, answer) ==
    [st EXCEPT !.last_pressure = answer[1],
               !.last_pressure_iterations = answer[2]]

\* state.copied_with(density=, velocity=, age=): a shallow copy of the state
\* with the three fields replaced
copied_with(st, density, velocity, age) ==
    [st EXCEPT !.density = density, !.velocity = velocity, !.age = age]

\* the active mask step writes into the cache: line 45
active_of(density) ==
    [c \in StepCells |-> create_binary_mask(density, <<1, 2>>)[c].value]

InitStep ==
    /\ state \in [density : [StepCells -> DensityValues], velocity : {0},
                  gravity : {<<-1>>}, age : {0}, last_pressure : {-1},
                  last_pressure_iterations : {-1}, domaincache : {0}]
    /\ result = <<>>
    /\ domaincache = <<>>
    /\ call = <<>>
    /\ calls = 0
    /\ IdleMask /\ IdleExt /\ IdleSp

\* step(state, dt, obstacles, inflows) on the state held in `state`; the
\* solver answers `answer`, the advection leaves `advected` and `velocity`.
\* The two calls of extrapolate, the boundary conditions and the advection
\* are pure: they change no state and only feed the returned fields.
Step(dt, obstacles, inflows, answer, advected, velocity) ==
    /\ calls < MaxSteps
    /\ result = <<>>
    /\ LET cache == domain(state, domaincache, obstacles)
           density == [c \in StepCells |-> state.density[c] + dt * inflow(inflows)[c]]
           solved == solve_pressure([kind |-> "StaggeredGrid", last_dim |-> 1,
                                     rank |-> 1, pressure_solver |-> None], answer)
           after == divergence_free_records([state EXCEPT !.domaincache = cache.id],
                                            solved.returned)
       IN /\ domaincache' = [cache EXCEPT !.active = active_of(density)]
          /\ state' = after
          /\ result' = copied_with(after, advected, velocity, state.age + dt)
    /\ call' = [dt |-> dt, obstacles |-> obstacles, inflows |-> inflows,
                answer |-> answer]
    /\ calls' = calls + 1
    /\ UNCHANGED <<vars_mask, vars_ext, vars_sp>>

CallStep ==
    \E dt \in {1}, obstacles \in ObstacleInputs, inflows \in InflowInputs,
       answer \in StepAnswers, advected \in [StepCells -> DensityValues],
       velocity \in VelocityValues :
        Step(dt, obstacles, inflows, answer, advected, velocity)

\* the caller goes on with the state step returned
Advance ==
    /\ result # <<>>
    /\ state' = result
    /\ result' = <<>>
    /\ UNCHANGED <<domaincache, call, calls, vars_mask, vars_ext, vars_sp>>

NextStep == CallStep \/ Advance

SpecStep == InitStep /\ [][NextStep]_vars

----------------------------------------------------------------------------
(* Properties of step                                                      *)

\* the step from the current state to the next is a call of step
StepTaken == calls' = calls + 1

\* the state step is called on holds a cache built for these obstacles
CacheMatches(obstacles) ==
    state.domaincache # 0 /\ domaincache.obstacles = obstacles

\* density + dt * inflow at cell c for the arguments args of a call
InflowedDensity(args, c) ==
    state.density[c]
        + args.dt * SumSeq([i \in 1..Len(args.inflows) |->
                               IF c \in args.inflows[i].geometry
                               THEN args.inflows[i].rate ELSE 0],
                           Len(args.inflows))

\* the mask of the cells whose share of the largest density exceeds 0.5
HalfMask(args) ==
    [c \in StepCells |->
        IF \A e \in StepCells : InflowedDensity(args, e) = 0 THEN 0
        ELSE IF \A e \in StepCells :
                   2 * Abs(InflowedDensity(args, c)) > Abs(InflowedDensity(args, e))
             THEN 1 ELSE 0]

\* C4: a step called with the obstacle set the cache was built for keeps the
\* cache object and its accessible mask (in the input state and in the
\* returned one); every step overwrites the active mask with the binary
\* mask of density + dt*inflow at threshold 0.5; a new cache is built only
\* when the state has none or its obstacle set does not match.
C4_CacheReused ==
    [][StepTaken =>
          /\ CacheMatches(call'.obstacles) =>
                /\ domaincache'.id = domaincache.id
                /\ domaincache'.accessible = domaincache.accessible
                /\ domaincache'.obstacles = domaincache.obstacles
                /\ state'.domaincache = domaincache.id
                /\ result'.domaincache = domaincache.id
          /\ domaincache'.active = HalfMask(call')
          /\ ~CacheMatches(call'.obstacles) =>
                /\ domaincache'.id = (IF state.domaincache = 0 THEN 0
                                      ELSE domaincache.id) + 1
                /\ domaincache'.obstacles = call'.obstacles
                /\ \A c \in StepCells :
                      domaincache'.accessible[c] = 1
                          <=> \A i \in 1..Len(call'.obstacles) : c \notin call'.obstacles[i]
      ]_vars

\* three steps with one obstacle ran on the first cache, the last of them
\* leaving an active mask with a fluid cell
C4_Witness ==
    /\ calls = 3 /\ result # <<>>
    /\ domaincache.id = 1 /\ result.domaincache = 1
    /\ Len(domaincache.obstacles) = 1
    /\ \E c \in StepCells : domaincache.active[c] = 1

\* C5 as stated: a call of step leaves the input state's density, velocity,
\* gravity, age, last pressure and last pressure-iteration count as they
\* were before the call.
C5_InputStateUntouched ==
    [][StepTaken =>
          /\ state'.density = state.density
          /\ state'.velocity = state.velocity
          /\ state'.gravity = state.gravity
          /\ state'.age = state.age
          /\ state'.last_pressure = state.last_pressure
          /\ state'.last_pressure_iterations = state.last_pressure_iterations
      ]_vars

\* C5 amended: a call of step leaves the input state's density, velocity,
\* gravity and age as they were; it overwrites the input state's last
\* pressure and last pressure-iteration count with the solver's answer of
\* this call, and the returned state carries the new age and that answer.
C5_InputStateKeepsFields ==
    [][StepTaken =>
          /\ state'.density = state.density
          /\ state'.velocity = state.velocity
          /\ state'.gravity = state.gravity
          /\ state'.age = state.age
          /\ state'.last_pressure = call'.answer[1]
          /\ state'.last_pressure_iterations = call'.answer[2]
          /\ result'.age = state.age + call'.dt
          /\ result'.last_pressure = call'.answer[1]
          /\ result'.last_pressure_iterations = call'.answer[2]
      ]_vars

\* a state that was never stepped before (age 0) holds, after its step, the
\* solver's answer, and the returned state differs from it
C5_Witness ==
    /\ calls = 1 /\ result # <<>>
    /\ state.age = 0 /\ result.age = 1
    /\ state.last_pressure = call.answer[1] /\ state.last_pressure = MaxAnswer
    /\ result.density # state.density

\* C10: in every state a step produces, the cache's active mask is
\* contained in its accessible mask, cell by cell.
C10_ActiveWithinAccessible ==
    domaincache # <<>> =>
        \A c \in StepCells : domaincache.active[c] <= domaincache.accessible[c]

============================================================================
